---- MODULE Spec2Model ----
(***************************************************************************)
(* The client-side synchronization core of src/client/game/ClientGame.js:  *)
(* input sequencing, server reconciliation, the snapshot buffer and the    *)
(* draw-time interpolation pass.                                           *)
(*                                                                         *)
(* Numbers.  Times are integers in milliseconds (the code holds seconds    *)
(* and computes clientTime = serverTime - networkOffset / 1000).  A blend  *)
(* factor is an exact fraction [num, den] with den > 0, and the snapshot   *)
(* positions are multiples of PosUnit so that every lerp of the timeline   *)
(* is an integer: the arithmetic is that of the reals, not IEEE doubles.   *)
(* A lastInputSeq of 0 stands for every falsy value (absent, null, 0).     *)
(*                                                                         *)
(* Player objects are identified with their ids.  `position` is the        *)
(* position field of each object; `players` is the game's map of added     *)
(* players; `inputs` and `lastInputSeq` are the pending-input list and     *)
(* the last-acknowledged sequence number of the object Me, the only one    *)
(* ever handed to setLocalPlayer.  The capture time of an input frame      *)
(* (game.getTime()) is read by nothing in this file and is left out.       *)
(*                                                                         *)
(* Two variables are history, not program state: `h` tells what the last   *)
(* handler did, and `acknowledged` is the greatest acknowledged sequence   *)
(* number whose reconciliation removed pending inputs (0 before any).      *)
(***************************************************************************)
EXTENDS Integers, Sequences, FiniteSets, TLC

VARIABLES options, players, position, inputs, lastInputSeq,
          serverGhosts, localGhosts, localPlayer, network, sent,
          inputSeq, clientTime, serverTime, serverUpdates,
          afterViewLoopHooks, acknowledged, h

vars == <<options, players, position, inputs, lastInputSeq,
          serverGhosts, localGhosts, localPlayer, network, sent,
          inputSeq, clientTime, serverTime, serverUpdates,
          afterViewLoopHooks, acknowledged, h>>

----------------------------------------------------------------------------
(* Bounds of the model *)

\* the session captures at most MaxSeq input frames
MaxSeq == 4
\* server times are BaseTime + k * TickMs for k in 0..MaxTime
MaxTime == 3
\* the capacities 60 * networkBufferSize that SpecBuffer tries are at most MaxCap
MaxCap == 3
BaseTime == 10000
TickMs == 500

Null == "null"
Me == "p1"

RECURSIVE Gcd(_, _)
Gcd(a, b) == IF b = 0 THEN a ELSE Gcd(b, a % b)

RECURSIVE LcmUpTo(_)
LcmUpTo(n) == IF n <= 1 THEN 1 ELSE LET l == LcmUpTo(n - 1) IN (l * n) \div Gcd(l, n)

\* every timeline blend has a denominator dividing PosUnit
PosUnit == LcmUpTo(MaxTime)

Pos(x, y) == [x |-> x, y |-> y]
Origin == Pos(0, 0)
Far == Pos(PosUnit, 2 * PosUnit)

Frac(n, d) == [num |-> n, den |-> d]

Abs(n) == IF n < 0 THEN -n ELSE n

----------------------------------------------------------------------------
(* lerp *)

Clamp01(t) ==
    IF t.num < 0 THEN Frac(0, 1)
    ELSE IF t.num > t.den THEN Frac(1, 1)
    ELSE t

interpolate(p, n, interpolation) ==
    LET t == Clamp01(interpolation)
    IN  p + (t.num * (n - p)) \div t.den

lerp(a, b, interpolation) ==
    [x |-> interpolate(a.x, b.x, interpolation),
     y |-> interpolate(a.y, b.y, interpolation)]

\* the division of interpolate is exact
Exact(a, b, interpolation) ==
    LET t == Clamp01(interpolation)
    IN  /\ (t.num * (b.x - a.x)) % t.den = 0
        /\ (t.num * (b.y - a.y)) % t.den = 0

----------------------------------------------------------------------------
(* The mutable world the handlers work on, as one record *)

World ==
    [position |-> position, inputs |-> inputs, lastInputSeq |-> lastInputSeq,
     serverGhosts |-> serverGhosts, localGhosts |-> localGhosts,
     spawned |-> 0, fired |-> 0, threw |-> FALSE, exact |-> TRUE]

\* a TypeError: the handler stops where it is
Throw(w) == [w EXCEPT !.threw = TRUE]

NoGhosts == [id \in {} |-> Origin]

\* line 35
NoHooks == [name \in {} |-> "hook"]

WithKey(f, k, v) == [i \in (DOMAIN f) \cup {k} |-> IF i = k THEN v ELSE f[i]]
WithoutKey(f, k) == [i \in (DOMAIN f) \ {k} |-> f[i]]

\* What the last handler did, for the properties to read: which handler ran,
\* whether it threw, the input list a capture polled, the snapshot that
\* arrived (a list of one), the number of samples evicted, the local player's
\* position where onServerUpdate passes its reconciliation (before
\* game.update), the number of pending inputs that cleared, whether the
\* interpolation pass ran, the numbers of bullets spawned and events fired,
\* and of the interpolation pass: the index of the bracketing pair its search
\* found (0 for none), its previous and target snapshots (lists of one) and
\* its blend.
HNone == [op |-> "other", threw |-> FALSE, input |-> <<>>, data |-> <<>>,
          evicted |-> 0, reconPosition |-> Origin, cleared |-> 0,
          interpolated |-> FALSE, spawned |-> 0, fired |-> 0,
          bracket |-> 0, previous |-> <<>>, target |-> <<>>,
          blend |-> Frac(0, 1)]

Commit(w) ==
    /\ position' = w.position
    /\ inputs' = w.inputs
    /\ lastInputSeq' = w.lastInputSeq
    /\ serverGhosts' = w.serverGhosts
    /\ localGhosts' = w.localGhosts

----------------------------------------------------------------------------
(* The external collaborators: Player and AbstractGame *)

\* Player.pushInput: appends to the pending-input list
pushInput(list, frame) == Append(list, frame)

\* Player.clearInputs(n): drops the n oldest pending inputs
clearInputs(list, numberToClear) == SubSeq(list, numberToClear + 1, Len(list))

\* where the simulation may put the local player
SimPositions == {Origin, Far}

\* game.update(delta) / player.update(delta): the simulation step applies the
\* pending inputs to the local player; it moves the player and nothing else
simulate(w) ==
    IF w.inputs = <<>> THEN {w.position[Me]}
    ELSE {w.position[Me]} \cup SimPositions

----------------------------------------------------------------------------
(* updateInput, lines 95-118 *)

\* a frame that carries the sequence number before the increment
wireFrameStale(input, seq) == <<"i", input, seq - 1>>

\* the frame on the wire: 'i.' + input.join('-') + '.' + time + '.' + inputSeq
wireFrame(input, seq) == <<"i", input, seq>>

\* a capture that consumes two sequence numbers
nextSeqSkip(seq) == seq + 2

\* the sequence number a capture assigns
nextSeq(seq) == seq + 1

updateInput(input) ==
    IF Len(input) > 0 /\ localPlayer # Null
    THEN [inputSeq |-> nextSeq(inputSeq),
          inputs |-> pushInput(inputs, [inputs |-> input, seq |-> nextSeq(inputSeq)]),
          sent |-> IF network # Null THEN wireFrame(input, nextSeq(inputSeq)) ELSE sent]
    ELSE [inputSeq |-> inputSeq, inputs |-> inputs, sent |-> sent]

----------------------------------------------------------------------------
(* clientPrediction, lines 120-165 *)

\* a search for the first pending input the acknowledgment does not cover
lastInputSeqIndexAtLeast(localInputs, serverInputSeq) ==
    LET hits == {i \in 1..Len(localInputs) : localInputs[i].seq >= serverInputSeq}
    IN  IF hits = {} THEN -1
        ELSE (CHOOSE i \in hits : \A j \in hits : i <= j) - 1

\* lines 130-139: the 0-based index of the first pending input with the
\* acknowledged seq, -1 when there is none
lastInputSeqIndex(localInputs, serverInputSeq) ==
    LET hits == {i \in 1..Len(localInputs) : localInputs[i].seq = serverInputSeq}
    IN  IF hits = {} THEN -1
        ELSE (CHOOSE i \in hits : \A j \in hits : i <= j) - 1

\* the discard count that keeps the matched entry
numberToClearKeepMatch(index) == Abs(index - 0)

\* line 147
numberToClear(index) == Abs(index - (-1))

\* a reconciliation that snaps the player whether or not the ack matched
reconcileAlways(w, latestServerUpdate, index) ==
    [w EXCEPT !.inputs = clearInputs(@, Abs(index - (-1))),
              !.position[Me] = latestServerUpdate.ownPlayer.position,
              !.lastInputSeq = IF index # -1 THEN index ELSE @]

\* a reconciliation that sends the player back to the origin when the
\* acknowledgment matches no pending input
reconcileOrReset(w, latestServerUpdate, index) ==
    IF index # -1
    THEN [w EXCEPT !.inputs = clearInputs(@, Abs(index - (-1))),
                   !.position[Me] = latestServerUpdate.ownPlayer.position,
                   !.lastInputSeq = index]
    ELSE [w EXCEPT !.position[Me] = Origin]

\* lines 142-156: the acknowledged inputs go, the player snaps to the server
reconcile(w, latestServerUpdate, index) ==
    IF index # -1
    THEN [w EXCEPT !.inputs = clearInputs(@, numberToClear(index)),
                   !.position[Me] = latestServerUpdate.ownPlayer.position,
                   !.lastInputSeq = index]
    ELSE w

\* lines 158-163: the debug server position block
moveServerGhost(w, latestServerUpdate) ==
    IF Me \in DOMAIN w.serverGhosts
    THEN [w EXCEPT !.serverGhosts[Me] = latestServerUpdate.ownPlayer.position]
    ELSE Throw(w)

clientPrediction(w, updates) ==
    LET latestServerUpdate == updates[Len(updates)]
        serverInputSeq == latestServerUpdate.ownPlayer.lastInputSeq
    IN  IF serverInputSeq # 0
        THEN moveServerGhost(
                 reconcile(w, latestServerUpdate,
                           lastInputSeqIndex(w.inputs, serverInputSeq)),
                 latestServerUpdate)
        ELSE w

----------------------------------------------------------------------------
(* Replay of bullets and events *)

\* game.getBulletSystem().addBullet at the firing player's position: a
\* TypeError when the firing player is not in the game
RECURSIVE replayBullets(_, _, _)
replayBullets(w, bullets, i) ==
    IF w.threw \/ i > Len(bullets) THEN w
    ELSE IF bullets[i].firedBy \in players
         THEN replayBullets([w EXCEPT !.spawned = @ + 1], bullets, i + 1)
         ELSE Throw(w)

\* game.onEvent({ id, name }, player)
RECURSIVE replayEvents(_, _, _)
replayEvents(w, events, i) ==
    IF w.threw \/ i > Len(events) THEN w
    ELSE replayEvents([w EXCEPT !.fired = @ + 1], events, i + 1)

----------------------------------------------------------------------------
(* onServerUpdate, lines 167-232 *)

\* a naive update that leaves the remote players where they are
naivePlayersSkip(w, list, i) == w

\* lines 181-185
RECURSIVE naivePlayers(_, _, _)
naivePlayers(w, list, i) ==
    IF w.threw \/ i > Len(list) THEN w
    ELSE IF list[i].id \in players
         THEN naivePlayers([w EXCEPT !.position[list[i].id] = list[i].position],
                           list, i + 1)
         ELSE Throw(w)

\* lines 178-203
naiveUpdate(w, data) ==
    IF localPlayer = Null THEN Throw(w)
    ELSE replayEvents(
             replayBullets(
                 naivePlayers([w EXCEPT !.position[Me] = data.ownPlayer.position],
                              data.players, 1),
                 data.bullets, 1),
             data.events, 1)

\* line 213: 60fps
AssumedFrameRate == 60

\* line 213: the buffer holds 60 * networkBufferSize samples;
\* networkBufferSize is the fraction num / den of a second
bufferFull(updates) ==
    Len(updates) * options.networkBufferSize.den
        >= AssumedFrameRate * options.networkBufferSize.num

\* a push that never evicts
bufferAfterPushNoEvict(updates, data) == Append(updates, data)

\* a full buffer that drops the sample just pushed
bufferAfterPushEvictNewest(updates, data) ==
    IF bufferFull(Append(updates, data)) THEN updates ELSE Append(updates, data)

\* lines 209-215
bufferAfterPush(updates, data) ==
    LET pushed == Append(updates, data)
    IN  IF bufferFull(pushed) THEN Tail(pushed) ELSE pushed

\* a render time that ignores the network offset
renderTimeNoOffset(time) == time

\* line 171, in milliseconds
renderTime(time) == time - options.networkOffset

\* whether lines 219-220 let the reconciliation run
reconciles(updates) == Len(updates) > 0 /\ localPlayer # Null

\* the history of the acknowledgments that removed pending inputs
acknowledgedAfter(data) ==
    LET updates == bufferAfterPush(serverUpdates, data)
        seq == data.ownPlayer.lastInputSeq
    IN  IF /\ ~options.naiveApproach
           /\ reconciles(updates)
           /\ Len(clientPrediction(World, updates).inputs) < Len(inputs)
           /\ seq > acknowledged
        THEN seq
        ELSE acknowledged

OnServerUpdate(data) ==
    /\ serverTime' = data.serverTime
    /\ clientTime' = renderTime(data.serverTime)
    /\ IF options.naiveApproach
       THEN LET w == naiveUpdate(World, data)
            IN  /\ Commit(w)
                /\ serverUpdates' = serverUpdates
                /\ h' = [HNone EXCEPT !.op = "onServerUpdate", !.threw = w.threw,
                                      !.data = <<data>>,
                                      !.reconPosition = w.position[Me],
                                      !.spawned = w.spawned, !.fired = w.fired]
       ELSE LET updates == bufferAfterPush(serverUpdates, data)
            IN  /\ serverUpdates' = updates
                /\ IF reconciles(updates)
                   THEN LET w == clientPrediction(World, updates)
                        IN  \E p \in (IF w.threw THEN {w.position[Me]} ELSE simulate(w)) :
                                /\ Commit([w EXCEPT !.position[Me] = p])
                                /\ h' = [HNone EXCEPT !.op = "onServerUpdate",
                                                      !.threw = w.threw,
                                                      !.data = <<data>>,
                                                      !.evicted = Len(serverUpdates) + 1
                                                                  - Len(updates),
                                                      !.reconPosition = w.position[Me],
                                                      !.cleared = Len(inputs) - Len(w.inputs)]
                   ELSE /\ Commit(World)
                        /\ h' = [HNone EXCEPT !.op = "onServerUpdate",
                                              !.data = <<data>>,
                                              !.evicted = Len(serverUpdates) + 1
                                                          - Len(updates),
                                              !.reconPosition = position[Me]]
    /\ acknowledged' = acknowledgedAfter(data)
    /\ UNCHANGED <<afterViewLoopHooks, options, players, localPlayer, network, sent,
                   inputSeq>>

----------------------------------------------------------------------------
(* processNetworkUpdates, lines 234-385 *)

\* a search that also takes a pair with the client time on one of its ends
bracketIndexLoose(updates, time) ==
    LET found == {i \in 1..(Len(updates) - 1) :
                     /\ time >= updates[i].serverTime
                     /\ time <= updates[i + 1].serverTime}
    IN  IF found = {} THEN 0 ELSE CHOOSE i \in found : \A j \in found : i <= j

\* lines 249-259: the first adjacent pair that strictly brackets the client
\* time, as the index of its older sample; 0 when there is none
bracketIndex(updates, time) ==
    LET found == {i \in 1..(Len(updates) - 1) :
                     /\ time > updates[i].serverTime
                     /\ time < updates[i + 1].serverTime}
    IN  IF found = {} THEN 0 ELSE CHOOSE i \in found : \A j \in found : i <= j

\* a fallback to the newest sample as the target
targetOfNewest(updates, time) ==
    IF bracketIndex(updates, time) # 0
    THEN updates[bracketIndex(updates, time) + 1]
    ELSE updates[Len(updates)]

\* lines 255 and 264
targetOf(updates, time) ==
    IF bracketIndex(updates, time) # 0
    THEN updates[bracketIndex(updates, time) + 1]
    ELSE updates[1]

\* lines 256 and 265
previousOf(updates, time) ==
    IF bracketIndex(updates, time) # 0
    THEN updates[bracketIndex(updates, time)]
    ELSE updates[1]

\* a blend that is 1 where the division by zero is
timePointOne(target, previous, time) ==
    LET difference == target.serverTime - time
        max_difference == target.serverTime - previous.serverTime
    IN  IF max_difference = 0 THEN Frac(1, 1)
        ELSE IF max_difference < 0 THEN Frac(-difference, -max_difference)
        ELSE Frac(difference, max_difference)

\* lines 277-285: a division by zero gives NaN or an infinity, and then 0
timePoint(target, previous, time) ==
    LET difference == target.serverTime - time
        max_difference == target.serverTime - previous.serverTime
    IN  IF max_difference = 0 THEN Frac(0, 1)
        ELSE IF max_difference < 0 THEN Frac(-difference, -max_difference)
        ELSE Frac(difference, max_difference)

\* lines 311-319 and 358-364: where a player is drawn
rendered(current, ghost, interpolation) ==
    IF options.clientSmoothing THEN lerp(current, ghost, interpolation) ELSE ghost

renderedExact(current, ghost, interpolation) ==
    options.clientSmoothing => Exact(current, ghost, interpolation)

\* a timeline lerp with its ends swapped
localGhostPositionSwapped(previousPosition, targetPosition, blend) ==
    lerp(targetPosition, previousPosition, blend)

\* line 307
localGhostPosition(previousPosition, targetPosition, blend) ==
    lerp(previousPosition, targetPosition, blend)

\* lines 295-339, for the player at index i of the latest update
interpolatePlayer(w, latest, target, previous, blend, interpolation, i) ==
    LET playerData == latest.players[i]
        id == playerData.id
        ghost == localGhostPosition(previous.players[i].position,
                                    target.players[i].position, blend)
    IN  IF ~(i <= Len(target.players) /\ i <= Len(previous.players)) THEN w
        ELSE IF id \notin players THEN w
        ELSE IF id \notin DOMAIN w.serverGhosts THEN Throw(w)
        ELSE replayEvents(
                 replayBullets(
                     [w EXCEPT !.serverGhosts[id] = playerData.position,
                               !.localGhosts[id] = ghost,
                               !.position[id] = rendered(@, ghost, interpolation),
                               !.exact = @ /\ renderedExact(w.position[id], ghost,
                                                            interpolation)],
                     target.bullets, 1),
                 target.events, 1)

\* lines 290-341
RECURSIVE interpolatePlayers(_, _, _, _, _, _, _)
interpolatePlayers(w, latest, target, previous, blend, interpolation, i) ==
    IF w.threw \/ i > Len(latest.players) THEN w
    ELSE interpolatePlayers(
             interpolatePlayer(w, latest, target, previous, blend, interpolation, i),
             latest, target, previous, blend, interpolation, i + 1)

\* lines 345-384: without prediction the local player follows the timeline
interpolateLocal(w, latest, target, previous, blend, interpolation) ==
    LET local_target == lerp(previous.ownPlayer.position,
                             target.ownPlayer.position, blend)
    IN  IF w.threw \/ options.clientPrediction \/ options.naiveApproach THEN w
        ELSE IF localPlayer = Null \/ Me \notin DOMAIN w.serverGhosts THEN Throw(w)
        ELSE replayEvents(
                 replayBullets(
                     [w EXCEPT !.serverGhosts[Me] = latest.ownPlayer.position,
                               !.position[Me] = rendered(@, local_target, interpolation),
                               !.exact = @ /\ renderedExact(w.position[Me], local_target,
                                                            interpolation)],
                     latest.bullets, 1),
                 latest.events, 1)

processNetworkUpdates(w, interpolation) ==
    LET target == targetOf(serverUpdates, clientTime)
        previous == previousOf(serverUpdates, clientTime)
        blend == timePoint(target, previous, clientTime)
        latest == serverUpdates[Len(serverUpdates)]
    IN  IF Len(serverUpdates) = 0 THEN w
        ELSE interpolateLocal(
                 interpolatePlayers(w, latest, target, previous, blend, interpolation, 1),
                 latest, target, previous, blend, interpolation)

\* line 406
interpolates == ~options.naiveApproach /\ Len(serverUpdates) > 0

\* what the interpolation pass selected, lines 249-285
selection ==
    LET target == targetOf(serverUpdates, clientTime)
        previous == previousOf(serverUpdates, clientTime)
    IN  [bracket |-> bracketIndex(serverUpdates, clientTime),
         previous |-> <<previous>>, target |-> <<target>>,
         blend |-> timePoint(target, previous, clientTime)]

\* onDraw, lines 405-425; the renderer and the hooks only read
OnDraw(interpolation) ==
    LET w == IF interpolates THEN processNetworkUpdates(World, interpolation) ELSE World
    IN  /\ w.exact
        /\ Commit(w)
        /\ h' = IF interpolates
                THEN [HNone EXCEPT !.op = "onDraw", !.threw = w.threw,
                                   !.interpolated = TRUE,
                                   !.spawned = w.spawned, !.fired = w.fired,
                                   !.bracket = selection.bracket,
                                   !.previous = selection.previous,
                                   !.target = selection.target,
                                   !.blend = selection.blend]
                ELSE [HNone EXCEPT !.op = "onDraw", !.threw = w.threw]
        /\ UNCHANGED <<acknowledged, afterViewLoopHooks,
                       options, players, localPlayer, network, sent, inputSeq,
                       clientTime, serverTime, serverUpdates>>

----------------------------------------------------------------------------
(* onUpdate, lines 391-403 *)

OnUpdate(input) ==
    LET u == updateInput(input)
        w == [World EXCEPT !.inputs = u.inputs]
    IN  /\ inputSeq < MaxSeq
        /\ inputSeq' = u.inputSeq
        /\ sent' = u.sent
        /\ \E p \in (IF options.clientPrediction /\ localPlayer # Null
                     THEN simulate(w) ELSE {position[Me]}) :
               Commit([w EXCEPT !.position[Me] = p])
        /\ h' = [HNone EXCEPT !.op = "onUpdate", !.input = input]
        /\ UNCHANGED <<acknowledged, afterViewLoopHooks,
                       options, players, localPlayer, network,
                       clientTime, serverTime, serverUpdates>>

----------------------------------------------------------------------------
(* The collaborator-facing API *)

\* lines 47-56
AddPlayer(id) ==
    /\ players' = players \cup {id}
    /\ serverGhosts' = WithKey(serverGhosts, id, position[id])
    /\ localGhosts' = WithKey(localGhosts, id, position[id])
    /\ h' = HNone
    /\ UNCHANGED <<acknowledged, afterViewLoopHooks,
                   options, position, inputs, lastInputSeq, localPlayer, network, sent,
                   inputSeq, clientTime, serverTime, serverUpdates>>

\* lines 58-63
RemovePlayer(id) ==
    /\ players' = players \ {id}
    /\ serverGhosts' = WithoutKey(serverGhosts, id)
    /\ localGhosts' = WithoutKey(localGhosts, id)
    /\ h' = HNone
    /\ UNCHANGED <<acknowledged, afterViewLoopHooks,
                   options, position, inputs, lastInputSeq, localPlayer, network, sent,
                   inputSeq, clientTime, serverTime, serverUpdates>>

\* lines 80-85
ClearPlayers ==
    /\ players' = {}
    /\ serverGhosts' = NoGhosts
    /\ localGhosts' = NoGhosts
    /\ h' = HNone
    /\ UNCHANGED <<acknowledged, afterViewLoopHooks,
                   options, position, inputs, lastInputSeq, localPlayer, network, sent,
                   inputSeq, clientTime, serverTime, serverUpdates>>

\* lines 65-67
SetLocalPlayer ==
    /\ localPlayer' = Me
    /\ h' = HNone
    /\ UNCHANGED <<acknowledged, afterViewLoopHooks,
                   options, players, position, inputs, lastInputSeq, serverGhosts,
                   localGhosts, network, sent, inputSeq, clientTime, serverTime,
                   serverUpdates>>

\* lines 387-389
SetNetwork ==
    /\ network' = "network"
    /\ h' = HNone
    /\ UNCHANGED <<acknowledged, afterViewLoopHooks,
                   options, players, position, inputs, lastInputSeq, serverGhosts,
                   localGhosts, localPlayer, sent, inputSeq, clientTime, serverTime,
                   serverUpdates>>

\* lines 37-39
AddAfterViewLoopHook(name, hook) ==
    /\ afterViewLoopHooks' = WithKey(afterViewLoopHooks, name, hook)
    /\ h' = HNone
    /\ UNCHANGED <<options, players, position, inputs, lastInputSeq, serverGhosts,
                   localGhosts, localPlayer, network, sent, inputSeq, clientTime,
                   serverTime, serverUpdates, acknowledged>>

\* lines 41-45
RemoveAfterViewLoopHook(name) ==
    /\ afterViewLoopHooks' = IF name \in DOMAIN afterViewLoopHooks
                             THEN WithoutKey(afterViewLoopHooks, name)
                             ELSE afterViewLoopHooks
    /\ h' = HNone
    /\ UNCHANGED <<options, players, position, inputs, lastInputSeq, serverGhosts,
                   localGhosts, localPlayer, network, sent, inputSeq, clientTime,
                   serverTime, serverUpdates, acknowledged>>

----------------------------------------------------------------------------
(* Inputs and specifications *)

ServerTimes == {BaseTime + k * TickMs : k \in 0..MaxTime}

Snapshot(time, own, seq, others, bullets, events) ==
    [serverTime |-> time,
     ownPlayer |-> [position |-> own, lastInputSeq |-> seq],
     players |-> others, bullets |-> bullets, events |-> events]

Remote(id, p) == [id |-> id, position |-> p]

\* the modes of section 4.6 and the flag combination the code also accepts
Options(naive, prediction, smoothing, frames, offset) ==
    [naiveApproach |-> naive, clientPrediction |-> prediction,
     clientSmoothing |-> smoothing, networkBufferSize |-> Frac(frames, 60),
     networkOffset |-> offset]

\* the per-frame smoothing factors a draw is given
DrawFactors ==
    IF options.clientSmoothing THEN {Frac(0, 1), Frac(1, 2), Frac(1, 1)}
    ELSE {Frac(1, 1)}

InitWith(optionSet) ==
    /\ options \in optionSet
    /\ players = {}
    /\ position = [id \in {"p1", "p2", "p3"} |-> Origin]
    /\ inputs = <<>>
    /\ lastInputSeq = 0
    /\ serverGhosts = NoGhosts
    /\ localGhosts = NoGhosts
    /\ localPlayer = Null
    /\ network = Null
    /\ sent = <<>>
    /\ inputSeq = 0
    /\ clientTime = 0
    /\ serverTime = 0
    /\ serverUpdates = <<>>
    /\ afterViewLoopHooks = NoHooks
    /\ acknowledged = 0
    /\ h = HNone

NextOver(snapshots, inputLists, ids) ==
    \/ \E data \in snapshots : OnServerUpdate(data)
    \/ \E interpolation \in DrawFactors : OnDraw(interpolation)
    \/ \E input \in inputLists : OnUpdate(input)
    \/ \E id \in ids : AddPlayer(id)
    \/ \E id \in ids : RemovePlayer(id)
    \/ ClearPlayers
    \/ SetLocalPlayer
    \/ SetNetwork

\* Reconciliation and input sequencing: every mode, snapshots that differ in
\* the acknowledged seq and the own position
ReconOptions ==
    {Options(n, p, FALSE, 2, 0) : n \in BOOLEAN, p \in BOOLEAN}

ReconSnapshots ==
    {Snapshot(BaseTime, own, seq, <<>>, <<>>, <<>>) :
        own \in {Origin, Far}, seq \in 0..MaxSeq}

Init == InitWith(ReconOptions)
Next == NextOver(ReconSnapshots, {<<>>, <<"up", "left">>}, {Me})
Spec == Init /\ [][Next]_vars

\* The timeline: interpolation without prediction or smoothing, a buffer of
\* two samples, snapshots that differ in server time and in the remote
\* players they report.  The run starts after addPlayer(p1),
\* setLocalPlayer(p1) and setNetwork(network).
TimelineOptions ==
    {Options(FALSE, FALSE, FALSE, 3, k * TickMs) : k \in 1..(MaxTime - 1)}

RemoteLists ==
    {<<Remote("p2", Origin)>>, <<Remote("p2", Far)>>,
     <<Remote("p3", Far), Remote("p2", Origin)>>}

TimelineSnapshots ==
    {Snapshot(time, Origin, 0, others, <<>>, <<>>) :
        time \in ServerTimes, others \in RemoteLists}

InitTimeline ==
    /\ options \in TimelineOptions
    /\ players = {Me}
    /\ position = [id \in {"p1", "p2", "p3"} |-> Origin]
    /\ inputs = <<>>
    /\ lastInputSeq = 0
    /\ serverGhosts = WithKey(NoGhosts, Me, Origin)
    /\ localGhosts = WithKey(NoGhosts, Me, Origin)
    /\ localPlayer = Me
    /\ network = "network"
    /\ sent = <<>>
    /\ inputSeq = 0
    /\ clientTime = 0
    /\ serverTime = 0
    /\ serverUpdates = <<>>
    /\ afterViewLoopHooks = NoHooks
    /\ acknowledged = 0
    /\ h = HNone

NextTimeline == NextOver(TimelineSnapshots, {<<>>}, {"p2"})
SpecTimeline == InitTimeline /\ [][NextTimeline]_vars

\* The snapshot buffer: every capacity up to MaxCap, whole and fractional,
\* and two snapshots to tell arrivals apart
BufferOptions ==
    {[Options(n, TRUE, FALSE, frames, 0) EXCEPT !.networkBufferSize.den = den] :
        n \in BOOLEAN, frames \in 0..MaxCap, den \in {60, 40}}

BufferSnapshots ==
    {Snapshot(BaseTime + k * TickMs, Origin, 0, <<>>, <<>>, <<>>) : k \in 0..1}

InitBuffer == InitWith(BufferOptions)
NextBuffer == NextOver(BufferSnapshots, {<<>>}, {Me})
SpecBuffer == InitBuffer /\ [][NextBuffer]_vars

\* The naive mode: snapshots that differ in the own position, the remote
\* players, the bullets and the events
NaiveOptions == {Options(TRUE, p, FALSE, 2, 0) : p \in BOOLEAN}

NaiveSnapshots ==
    {Snapshot(BaseTime, own, 0, others, bullets, events) :
        own \in {Origin, Far},
        others \in RemoteLists \cup {<<>>},
        bullets \in {<<>>, <<[firedBy |-> "p2"]>>},
        events \in {<<>>, <<[id |-> 1, name |-> "hit", firedBy |-> "p2"]>>}}

InitNaive == InitWith(NaiveOptions)
NextNaive == NextOver(NaiveSnapshots, {<<>>}, {Me, "p2"})
SpecNaive == InitNaive /\ [][NextNaive]_vars

\* The clocks: every mode and every network offset up to two ticks, snapshots
\* that differ in their server time, input captures, and the registration of
\* post-draw hooks
ClockOptions ==
    {Options(n, p, FALSE, 2, k * TickMs) :
        n \in BOOLEAN, p \in BOOLEAN, k \in 0..(MaxTime - 1)}

ClockSnapshots ==
    {Snapshot(time, Origin, 0, <<>>, <<>>, <<>>) : time \in ServerTimes}

InitClock == InitWith(ClockOptions)

NextClock ==
    \/ NextOver(ClockSnapshots, {<<>>, <<"up">>}, {Me})
    \/ \E hook \in {"stats", "trace"} : AddAfterViewLoopHook("debug", hook)
    \/ RemoveAfterViewLoopHook("debug")

SpecClock == InitClock /\ [][NextClock]_vars

\* The replay: interpolation with and without prediction over a buffer of one
\* sample, snapshots that differ in the remote players they list and in the
\* bullets and events they report.  The run starts after addPlayer(p1),
\* addPlayer(p2), addPlayer(p3), setLocalPlayer(p1) and setNetwork(network).
ReplayOptions == {Options(FALSE, p, FALSE, 2, 0) : p \in BOOLEAN}

ReplaySnapshots ==
    {Snapshot(BaseTime, Origin, 0, others, bullets, events) :
        others \in {<<Remote("p2", Far)>>,
                    <<Remote("p3", Far), Remote("p2", Origin)>>},
        bullets \in {<<>>, <<[firedBy |-> "p2"]>>},
        events \in {<<>>, <<[id |-> 1, name |-> "hit", firedBy |-> "p2"]>>}}

InitReplay ==
    /\ options \in ReplayOptions
    /\ players = {"p1", "p2", "p3"}
    /\ position = [id \in {"p1", "p2", "p3"} |-> Origin]
    /\ inputs = <<>>
    /\ lastInputSeq = 0
    /\ serverGhosts = [id \in {"p1", "p2", "p3"} |-> Origin]
    /\ localGhosts = [id \in {"p1", "p2", "p3"} |-> Origin]
    /\ localPlayer = Me
    /\ network = "network"
    /\ sent = <<>>
    /\ inputSeq = 0
    /\ clientTime = 0
    /\ serverTime = 0
    /\ serverUpdates = <<>>
    /\ afterViewLoopHooks = NoHooks
    /\ acknowledged = 0
    /\ h = HNone

NextReplay == NextOver(ReplaySnapshots, {<<>>}, {"p2", "p3"})
SpecReplay == InitReplay /\ [][NextReplay]_vars

\* The window: a buffer of up to three samples that arrive in any order of
\* their server times, every network offset from none to two ticks
WindowOptions ==
    {Options(FALSE, FALSE, FALSE, 4, k * TickMs) : k \in 0..(MaxTime - 1)}

WindowSnapshots ==
    {Snapshot(time, Origin, 0, <<Remote("p2", Far)>>, <<>>, <<>>) :
        time \in ServerTimes}

InitWindow ==
    /\ options \in WindowOptions
    /\ players = {Me}
    /\ position = [id \in {"p1", "p2", "p3"} |-> Origin]
    /\ inputs = <<>>
    /\ lastInputSeq = 0
    /\ serverGhosts = WithKey(NoGhosts, Me, Origin)
    /\ localGhosts = WithKey(NoGhosts, Me, Origin)
    /\ localPlayer = Me
    /\ network = "network"
    /\ sent = <<>>
    /\ inputSeq = 0
    /\ clientTime = 0
    /\ serverTime = 0
    /\ serverUpdates = <<>>
    /\ afterViewLoopHooks = NoHooks
    /\ acknowledged = 0
    /\ h = HNone

NextWindow == NextOver(WindowSnapshots, {<<>>}, {"p2"})
SpecWindow == InitWindow /\ [][NextWindow]_vars

----------------------------------------------------------------------------
(* Properties of reconciliation and input sequencing, under Spec *)

Latest == serverUpdates[Len(serverUpdates)]

Seqs(list) == [i \in 1..Len(list) |-> list[i].seq]

HasSeq(list, seq) == \E i \in 1..Len(list) : list[i].seq = seq

\* a snapshot has just been processed by the reconciliation of a non-naive run
Reconciled ==
    /\ h'.op = "onServerUpdate"
    /\ ~options.naiveApproach
    /\ localPlayer # Null
    /\ Len(serverUpdates') > 0

Acknowledged == serverUpdates'[Len(serverUpdates')].ownPlayer.lastInputSeq

Reported == serverUpdates'[Len(serverUpdates')].ownPlayer.position

\* C1: when a snapshot acknowledges the seq of the pending input at index i,
\* exactly the first i+1 pending inputs are discarded, the survivors are the
\* inputs with a greater seq in their order, and the local player is put at
\* the snapshot's own position.
C1_ReconcileMatch ==
    [][(Reconciled /\ HasSeq(inputs, Acknowledged)) =>
          LET i == CHOOSE k \in 1..Len(inputs) : inputs[k].seq = Acknowledged
          IN  /\ inputs' = SubSeq(inputs, i + 1, Len(inputs))
              /\ Len(inputs) - Len(inputs') = i
              /\ \A k \in 1..Len(inputs) :
                     inputs[k].seq > Acknowledged <=>
                         \E j \in 1..Len(inputs') : inputs'[j] = inputs[k]
              /\ h'.reconPosition = Reported]_vars

\* pending [1,2,3,4] acknowledged at 2 leaves [3,4], the player at the server's position
C1_Witness ==
    /\ h.op = "onServerUpdate"
    /\ h.cleared = 2
    /\ Seqs(inputs) = <<3, 4>>
    /\ Latest.ownPlayer.lastInputSeq = 2
    /\ Latest.ownPlayer.position = Far
    /\ h.reconPosition = Far

\* C3: a transmitted frame carries the seq of the entry pushed by the same
\* capture, and a pending entry leaves the list only in a reconciliation
\* that acknowledges a seq at least its own.
C3_FramesRetained ==
    [][/\ sent' # sent =>
              /\ h'.op = "onUpdate"
              /\ inputs' = Append(inputs, inputs'[Len(inputs')])
              /\ inputs'[Len(inputs')].seq = sent'[3]
              /\ inputs'[Len(inputs')].inputs = sent'[2]
       /\ \A i \in 1..Len(inputs) :
              \/ \E j \in 1..Len(inputs') : inputs'[j] = inputs[i]
              \/ /\ Reconciled
                 /\ HasSeq(inputs, Acknowledged)
                 /\ Acknowledged >= inputs[i].seq]_vars

\* the frame sent last is still pending after a reconciliation of older inputs
C3_Witness ==
    /\ h.op = "onServerUpdate"
    /\ h.cleared > 0
    /\ sent # <<>>
    /\ HasSeq(inputs, sent[3])

\* C4 as stated: a capture of an empty list is a no-op, and every capture
\* of a non-empty list assigns the next seq.
C4_Original ==
    [][h'.op = "onUpdate" =>
          IF h'.input = <<>>
          THEN inputSeq' = inputSeq /\ inputs' = inputs /\ sent' = sent
          ELSE /\ inputSeq' = inputSeq + 1
               /\ inputs' = Append(inputs, [inputs |-> h'.input, seq |-> inputSeq + 1])]_vars

\* C4, amended: a capture of an empty list, or one made while no local
\* player is set, is a no-op; every other capture assigns the seq one greater
\* than the last assigned (the first is 1); the pending seqs increase strictly.
C4_Sequencing ==
    /\ [](/\ \A i \in 1..Len(inputs) : inputs[i].seq \in 1..inputSeq
          /\ \A i, j \in 1..Len(inputs) : i < j => inputs[i].seq < inputs[j].seq)
    /\ [][h'.op = "onUpdate" =>
             IF h'.input = <<>> \/ localPlayer = Null
             THEN inputSeq' = inputSeq /\ inputs' = inputs /\ sent' = sent
             ELSE /\ inputSeq' = inputSeq + 1
                  /\ inputs' = Append(inputs, [inputs |-> h'.input,
                                               seq |-> inputSeq + 1])]_vars

\* two captures have assigned 1 and 2
C4_Witness ==
    /\ h.op = "onUpdate"
    /\ h.input # <<>>
    /\ inputSeq = 2
    /\ Seqs(inputs) = <<1, 2>>

\* C5: in predicted mode a snapshot without lastInputSeq leaves the pending
\* list alone and moves the local player's server ghost to the reported position.
C5_GhostOnly ==
    [][(/\ Reconciled
        /\ options.clientPrediction
        /\ Me \in DOMAIN serverGhosts
        /\ Acknowledged = 0) =>
          /\ inputs' = inputs
          /\ serverGhosts'[Me] = Reported]_vars

\* C6: an acknowledged seq that matches no pending input discards nothing and
\* changes neither the local player's position nor its last-acknowledged seq;
\* only the local player's server ghost moves, to the reported position.
C6_NoMatch ==
    [][(/\ Reconciled
        /\ Acknowledged # 0
        /\ ~HasSeq(inputs, Acknowledged)) =>
          /\ inputs' = inputs
          /\ h'.reconPosition = position[Me]
          /\ lastInputSeq' = lastInputSeq
          /\ localGhosts' = localGhosts
          /\ IF Me \in DOMAIN serverGhosts
             THEN serverGhosts' = [serverGhosts EXCEPT ![Me] = Reported]
             ELSE serverGhosts' = serverGhosts /\ h'.threw]_vars

\* an ack of 4 while only 1 and 2 are pending: the ghost moved, the player did not
C6_Witness ==
    /\ h.op = "onServerUpdate"
    /\ ~options.naiveApproach
    /\ ~h.threw
    /\ Seqs(inputs) = <<1, 2>>
    /\ Latest.ownPlayer.lastInputSeq = 4
    /\ Latest.ownPlayer.position = Far
    /\ serverGhosts[Me] = Far
    /\ h.reconPosition = Origin

\* C7: without prediction (and not naive) the arrival of a snapshot changes
\* neither the local player's position nor the pending list.
C7_NoReconciliation ==
    [][(/\ h'.op = "onServerUpdate"
        /\ ~options.naiveApproach
        /\ ~options.clientPrediction
        /\ Me \in players) =>
          /\ inputs' = inputs
          /\ h'.reconPosition = position[Me]]_vars

----------------------------------------------------------------------------
(* The snapshot buffer, under SpecBuffer *)

\* C2: the buffer never holds more than 60 * networkBufferSize snapshots.
C2_BufferBounded ==
    Len(serverUpdates) * options.networkBufferSize.den
        <= 60 * options.networkBufferSize.num

\* an arrival has evicted a sample from a buffer of capacity 3
C2_Witness ==
    /\ h.op = "onServerUpdate"
    /\ h.evicted = 1
    /\ options.networkBufferSize = Frac(3, 60)
    /\ Len(serverUpdates) = 2

----------------------------------------------------------------------------
(* The naive mode, under SpecNaive *)

\* C8: in naive mode an arrival that completes puts the local player and every
\* listed remote player at the reported positions; the buffer stays empty,
\* no arrival and no draw moves a ghost, and no draw interpolates.
C8_Naive ==
    /\ [](options.naiveApproach => serverUpdates = <<>>)
    /\ [][(options.naiveApproach /\ h'.op = "onServerUpdate") =>
             /\ serverGhosts' = serverGhosts
             /\ localGhosts' = localGhosts
             /\ ~h'.threw =>
                    /\ position'[Me] = h'.data[1].ownPlayer.position
                    /\ \A i \in 1..Len(h'.data[1].players) :
                           position'[h'.data[1].players[i].id]
                               = h'.data[1].players[i].position]_vars
    /\ [][(options.naiveApproach /\ h'.op = "onDraw") =>
             /\ ~h'.interpolated
             /\ position' = position
             /\ serverGhosts' = serverGhosts
             /\ localGhosts' = localGhosts]_vars

\* the local player and p2 have snapped to the reported positions, the ghosts stayed
C8_Witness ==
    /\ options.naiveApproach
    /\ h.op = "onServerUpdate"
    /\ ~h.threw
    /\ h.data[1].ownPlayer.position = Far
    /\ h.data[1].players = <<Remote("p2", Far)>>
    /\ position[Me] = Far
    /\ position["p2"] = Far
    /\ serverGhosts["p2"] = Origin
    /\ localGhosts["p2"] = Origin
    /\ serverUpdates = <<>>

----------------------------------------------------------------------------
(* The timeline, under SpecTimeline *)

\* the adjacent pairs of the buffer that strictly bracket the client time
Brackets ==
    {i \in 1..(Len(serverUpdates) - 1) :
        /\ serverUpdates[i].serverTime < clientTime
        /\ clientTime < serverUpdates[i + 1].serverTime}

FirstBracket == CHOOSE i \in Brackets : \A j \in Brackets : i <= j

Previous == serverUpdates[FirstBracket]

Target == serverUpdates[FirstBracket + 1]

\* the indices at which the latest, the target and the previous snapshot list
\* one and the same player, and the game knows that player
SameIndex ==
    {i \in 1..Len(Latest.players) :
        /\ i <= Len(Target.players)
        /\ i <= Len(Previous.players)
        /\ Target.players[i].id = Latest.players[i].id
        /\ Previous.players[i].id = Latest.players[i].id
        /\ Latest.players[i].id \in players}

\* a draw has just interpolated between a bracketing pair
DrawnInBracket ==
    /\ h'.op = "onDraw"
    /\ h'.interpolated
    /\ ~h'.threw
    /\ Brackets # {}

\* C9: without smoothing, after a draw that found a bracketing pair, every
\* remote player listed at one index by the previous, the target and the
\* latest snapshot is drawn at its local ghost, which is at
\* previous + blend * (target - previous) for
\* blend = (target.serverTime - renderTime) / (target.serverTime - previous.serverTime).
C9_GhostLerp ==
    [][(DrawnInBracket /\ ~options.clientSmoothing) =>
          \A i \in SameIndex :
              LET id == Latest.players[i].id
                  a == Previous.players[i].position
                  b == Target.players[i].position
                  num == Target.serverTime - clientTime
                  den == Target.serverTime - Previous.serverTime
              IN  /\ position'[id] = localGhosts'[id]
                  /\ den * localGhosts'[id].x = den * a.x + num * (b.x - a.x)
                  /\ den * localGhosts'[id].y = den * a.y + num * (b.y - a.y)]_vars

\* snapshots two ticks apart, the render time half way: p2 is drawn at the midpoint
C9_Witness ==
    /\ h.op = "onDraw"
    /\ h.interpolated
    /\ ~h.threw
    /\ Brackets # {}
    /\ Previous.serverTime + 2 * TickMs = Target.serverTime
    /\ clientTime = Previous.serverTime + TickMs
    /\ 1 \in SameIndex
    /\ Latest.players[1].id = "p2"
    /\ Previous.players[1].position = Origin
    /\ Target.players[1].position = Far
    /\ 2 * position["p2"].x = Far.x
    /\ 2 * position["p2"].y = Far.y
    /\ localGhosts["p2"] = position["p2"]

Distance(a, b) == Abs(a.x - b.x) + Abs(a.y - b.y)

\* C10: inside a bracket the interpolated position moves from previous toward
\* target as the render time advances: the local ghost drawn at the render
\* time is at least as close to the target position, and at least as far
\* from the previous position, as the one of any earlier render time of
\* the same bracket.
C10_TowardTarget ==
    [][(DrawnInBracket /\ ~options.clientSmoothing) =>
          \A i \in SameIndex : \A earlier \in ServerTimes :
              (Previous.serverTime < earlier /\ earlier < clientTime) =>
                  LET id == Latest.players[i].id
                      a == Previous.players[i].position
                      b == Target.players[i].position
                      before == localGhostPosition(a, b,
                                    timePoint(Target, Previous, earlier))
                  IN  /\ Distance(localGhosts'[id], b) <= Distance(before, b)
                      /\ Distance(localGhosts'[id], a) >= Distance(before, a)]_vars

\* p lies between a and b
Between(p, a, b) == (a <= p /\ p <= b) \/ (b <= p /\ p <= a)

Within(p, a, b) == Between(p.x, a.x, b.x) /\ Between(p.y, a.y, b.y)

\* a draw has just interpolated and its search found a bracketing pair
DrawnSelected == h'.op = "onDraw" /\ h'.interpolated /\ h'.bracket # 0

\* the blends of denominator den, one tick apart, from 0 to 1
TickBlends(den) == {Frac(j * TickMs, den) : j \in 0..(den \div TickMs)}

\* C11: the pair a draw selects is an adjacent pair of the buffer with
\* previous.serverTime < clientTime < target.serverTime, its blend is in
\* [0,1], and for every player of the pair lerp(previous, target, .) is
\* previous at 0, target at 1, and in between moves from previous to target
\* as the blend grows.
C11_BracketBlend ==
    [][DrawnSelected =>
          LET i == h'.bracket
              previous == h'.previous[1]
              target == h'.target[1]
              blend == h'.blend
          IN  /\ i \in 1..(Len(serverUpdates) - 1)
              /\ previous = serverUpdates[i]
              /\ target = serverUpdates[i + 1]
              /\ previous.serverTime < clientTime
              /\ clientTime < target.serverTime
              /\ blend.den > 0
              /\ 0 <= blend.num
              /\ blend.num <= blend.den
              /\ \A k \in 1..Len(previous.players) :
                     k <= Len(target.players) =>
                         LET a == previous.players[k].position
                             b == target.players[k].position
                         IN  /\ lerp(a, b, Frac(0, blend.den)) = a
                             /\ lerp(a, b, Frac(blend.den, blend.den)) = b
                             /\ Within(lerp(a, b, blend), a, b)
                             /\ \A s, t \in TickBlends(blend.den) :
                                    s.num <= t.num =>
                                        /\ Within(lerp(a, b, s), a, lerp(a, b, t))
                                        /\ Within(lerp(a, b, t), lerp(a, b, s), b)]_vars

\* snapshots three ticks apart, the render time one tick in: the blend is 2/3
\* and p2's ghost is two thirds of the way from the previous position
C11_Witness ==
    /\ h.op = "onDraw"
    /\ h.interpolated
    /\ ~h.threw
    /\ h.bracket = 1
    /\ h.previous = <<serverUpdates[1]>>
    /\ h.target = <<serverUpdates[2]>>
    /\ h.blend = Frac(2 * TickMs, 3 * TickMs)
    /\ h.previous[1].players = <<Remote("p2", Origin)>>
    /\ h.target[1].players = <<Remote("p2", Far)>>
    /\ "p2" \in DOMAIN localGhosts
    /\ 3 * localGhosts["p2"].x = 2 * Far.x
    /\ 3 * localGhosts["p2"].y = 2 * Far.y

----------------------------------------------------------------------------
(* The fallback of the interpolation pass, under SpecWindow *)

\* the buffer is in the order of its server times
Ordered ==
    \A i, j \in 1..Len(serverUpdates) :
        i < j => serverUpdates[i].serverTime <= serverUpdates[j].serverTime

Drawn == h'.op = "onDraw" /\ h'.interpolated

----------------------------------------------------------------------------
(* Repeated and late acknowledgments, under Spec *)

\* C13: in every state with a local player, and for every snapshot, running
\* the reconciliation step twice in a row on that snapshot leaves the local
\* player where running it once does.
C13_Idempotent ==
    \A data \in ReconSnapshots :
        localPlayer # Null =>
            LET once == clientPrediction(World, <<data>>)
                twice == clientPrediction(once, <<data>>)
            IN  twice.position[Me] = once.position[Me]

\* a reconciliation has just cleared acknowledged inputs and moved the player
\* to the server's position, others are still pending, and reconciling the
\* same snapshot again changes neither
C13_Witness ==
    /\ h.op = "onServerUpdate"
    /\ ~options.naiveApproach
    /\ h.cleared > 0
    /\ ~h.threw
    /\ inputs # <<>>
    /\ Latest.ownPlayer.position = Far
    /\ h.reconPosition = Far
    /\ position[Me] = Far
    /\ clientPrediction(World, serverUpdates).position[Me] = Far
    /\ clientPrediction(World, serverUpdates).inputs = inputs

\* C19: once a reconciliation has removed pending inputs for an acknowledged
\* seq s, the reconciliation of a snapshot whose lastInputSeq is at most s
\* removes no pending input and does not move the local player, whatever
\* captures and arrivals came in between.
C19_StaleIgnored ==
    [][(/\ Reconciled
        /\ acknowledged > 0
        /\ Acknowledged <= acknowledged) =>
          /\ inputs' = inputs
          /\ h'.cleared = 0
          /\ h'.reconPosition = position[Me]]_vars

\* inputs 1 and 2 were acknowledged and removed, 3 is pending; a snapshot
\* that acknowledges 1 and reports another position has changed nothing
C19_Witness ==
    /\ h.op = "onServerUpdate"
    /\ ~options.naiveApproach
    /\ localPlayer # Null
    /\ ~h.threw
    /\ acknowledged = 2
    /\ Latest.ownPlayer.lastInputSeq = 1
    /\ Latest.ownPlayer.position = Far
    /\ Seqs(inputs) = <<3>>
    /\ h.cleared = 0
    /\ h.reconPosition = Origin

\* C17: a reconciliation that finds the acknowledged input among the pending
\* ones records the snapshot's ownPlayer.lastInputSeq as the local player's
\* last-acknowledged sequence number.
C17_LastAcknowledged ==
    [][(Reconciled /\ HasSeq(inputs, Acknowledged)) =>
          lastInputSeq' = Acknowledged]_vars

----------------------------------------------------------------------------
(* The clocks, under SpecClock *)

\* C14: the arrival of a snapshot sets serverTime to the snapshot's and
\* clientTime to serverTime - networkOffset; no other operation changes
\* either; so once a snapshot has arrived clientTime is
\* serverTime - networkOffset.
C14_DerivedClock ==
    /\ [](serverTime # 0 => clientTime = serverTime - options.networkOffset)
    /\ [][IF h'.op = "onServerUpdate"
          THEN /\ serverTime' = h'.data[1].serverTime
               /\ clientTime' = h'.data[1].serverTime - options'.networkOffset
          ELSE /\ serverTime' = serverTime
               /\ clientTime' = clientTime]_vars

\* after an arrival at the third tick with an offset of one tick, a hook was
\* registered, an input captured and a frame drawn: the clocks still show
\* the arrival
C14_Witness ==
    /\ h.op = "onDraw"
    /\ inputSeq > 0
    /\ afterViewLoopHooks # NoHooks
    /\ options.networkOffset = TickMs
    /\ serverTime = BaseTime + 2 * TickMs
    /\ clientTime = BaseTime + TickMs

----------------------------------------------------------------------------
(* The order of the snapshot buffer, under SpecBuffer *)

\* C15: in non-naive mode an arrival appends its snapshot at the tail and
\* then removes nothing or the head, so it evicts at most one sample, the
\* oldest, and the sample just pushed goes only when the buffer held no other;
\* nothing else changes the buffer: the buffer is a contiguous run of the
\* latest arrivals in arrival order.
C15_Fifo ==
    [][IF h'.op = "onServerUpdate" /\ ~options.naiveApproach
       THEN LET pushed == Append(serverUpdates, h'.data[1])
            IN  /\ serverUpdates' \in {pushed, Tail(pushed)}
                /\ h'.evicted \in {0, 1}
                /\ h'.evicted = Len(pushed) - Len(serverUpdates')
                /\ serverUpdates # <<>> =>
                       /\ serverUpdates' # <<>>
                       /\ serverUpdates'[Len(serverUpdates')] = h'.data[1]
                       /\ \A i \in 1..(Len(serverUpdates') - 1) :
                              serverUpdates'[i]
                                  = serverUpdates[i + h'.evicted]
       ELSE serverUpdates' = serverUpdates]_vars

\* an arrival has evicted the oldest of two different samples: the buffer
\* holds the sample that was second and the one that arrived
C15_Witness ==
    /\ h.op = "onServerUpdate"
    /\ ~options.naiveApproach
    /\ h.evicted = 1
    /\ Len(serverUpdates) = 2
    /\ serverUpdates[1].serverTime = BaseTime + TickMs
    /\ serverUpdates[2].serverTime = BaseTime
    /\ serverUpdates[2] = h.data[1]

----------------------------------------------------------------------------
(* The replay of bullets and events, under SpecReplay *)

\* the ids a buffered snapshot refers to: in its players list or as the
\* firedBy of a bullet or an event
Referenced ==
    UNION {{u.players[i].id : i \in 1..Len(u.players)}
           \cup {u.bullets[i].firedBy : i \in 1..Len(u.bullets)}
           \cup {u.events[i].firedBy : i \in 1..Len(u.events)} :
           u \in {serverUpdates[k] : k \in 1..Len(serverUpdates)}}

\* C16: a removed player has no server ghost and no local ghost, and a draw
\* whose buffered snapshots refer to a removed remote player, the local
\* player being in the game, completes without a TypeError.
C16_RemovedSkipped ==
    /\ [](DOMAIN serverGhosts = players /\ DOMAIN localGhosts = players)
    /\ [][(/\ h'.op = "onDraw"
           /\ h'.interpolated
           /\ Me \in players
           /\ Referenced \ players # {}) => ~h'.threw]_vars

\* the numbers of bullets and of events the buffered snapshots report
BufferedBullets ==
    LET count[k \in 0..Len(serverUpdates)] ==
            IF k = 0 THEN 0 ELSE count[k - 1] + Len(serverUpdates[k].bullets)
    IN  count[Len(serverUpdates)]

BufferedEvents ==
    LET count[k \in 0..Len(serverUpdates)] ==
            IF k = 0 THEN 0 ELSE count[k - 1] + Len(serverUpdates[k].events)
    IN  count[Len(serverUpdates)]

\* C20: a draw spawns no more bullets and fires no more events than the
\* buffered snapshots report, and two draws in a row do not either: every
\* reported bullet and event is replayed at most once.
C20_ReplayedOnce ==
    [][(h'.op = "onDraw" /\ h'.interpolated) =>
          /\ h'.spawned <= BufferedBullets
          /\ h'.fired <= BufferedEvents
          /\ (h.op = "onDraw" /\ h.interpolated) =>
                 /\ h.spawned + h'.spawned <= BufferedBullets
                 /\ h.fired + h'.fired <= BufferedEvents]_vars

====
